---- MODULE Spec2Model ----
(***************************************************************************)
(* A model of components/script/dom/request.rs: the Request DOM object,    *)
(* its Constructor (the 38 steps of https://fetch.spec.whatwg.org/         *)
(* #dom-request), Clone, the Headers getter and take_body.                 *)
(*                                                                         *)
(* Rust values are written as follows.  Option<T>: None is <<>> and        *)
(* Some(x) is <<x>>.  Enumerations: the variant's name as a string.        *)
(* ByteString and &str: a sequence of one-character strings, so that       *)
(* to_lower is computed character by character.  hyper::method::Method:    *)
(* <<"Get">>, ..., or <<"Extension", token>>.   A Root<Headers> is the     *)
(* index of a Headers object in `heap`; a null MutNullableHeap is 0.       *)
(***************************************************************************)
EXTENDS Naturals, Sequences, FiniteSets

\* reqs: the Request objects, in the order they were created.
\* heap: the Headers objects; Request.headers holds an index into it, or 0.
\* last: the call that just returned and its outcome (NoOp between calls).
\* made: how each Request object was created (history).
\* focus: the group of RequestInit members this behaviour varies.
\* promises: the promises body-consuming calls returned, in call order, when
\*     such a call is followed step by step (SpecBody); empty otherwise.
VARIABLES reqs, heap, last, made, focus, promises

vars == <<reqs, heap, last, made, focus, promises>>

(* ------------------------------ bounds -------------------------------- *)

\* How many Request objects a behaviour creates.
MaxReqs == 2

\* How many entries script code appends to one Headers object.
MaxHeaders == 1

\* How many body-consuming calls a behaviour of SpecBody makes.
MaxCalls == 3

(* ------------------------------ Option -------------------------------- *)

None == <<>>

Some(x) == <<x>>

is_some(o) == o # <<>>

unwrap(o) == o[1]

\* Option::or
or(o, fallback) == IF is_some(o) THEN o ELSE fallback

(* ---------------------------- ByteString ------------------------------ *)

UpperChars == <<"A","B","C","D","E","F","G","H","I","J","K","L","M",
                "N","O","P","Q","R","S","T","U","V","W","X","Y","Z">>

LowerChars == <<"a","b","c","d","e","f","g","h","i","j","k","l","m",
                "n","o","p","q","r","s","t","u","v","w","x","y","z">>

\* A byte that is no valid UTF-8 on its own.
InvalidByte == "0xFF"

to_ascii_lowercase(c) ==
    IF \E i \in 1..26 : UpperChars[i] = c
    THEN LowerChars[CHOOSE i \in 1..26 : UpperChars[i] = c]
    ELSE c

\* ByteString::to_lower
to_lower(m) == [i \in 1..Len(m) |-> to_ascii_lowercase(m[i])]

\* ByteString::as_str: None unless the bytes are valid UTF-8
as_str(m) == IF \E i \in 1..Len(m) : m[i] = InvalidByte THEN None ELSE Some(m)

s_get == <<"g","e","t">>
s_head == <<"h","e","a","d">>
s_post == <<"p","o","s","t">>
s_put == <<"p","u","t">>
s_delete == <<"d","e","l","e","t","e">>
s_connect == <<"c","o","n","n","e","c","t">>
s_options == <<"o","p","t","i","o","n","s">>
s_trace == <<"t","r","a","c","e">>
s_track == <<"t","r","a","c","k">>
s_GET == <<"G","E","T">>
s_HEAD == <<"H","E","A","D">>
s_POST == <<"P","O","S","T">>
s_PUT == <<"P","U","T">>
s_DELETE == <<"D","E","L","E","T","E">>
s_OPTIONS == <<"O","P","T","I","O","N","S">>

(* ------------------------------ methods ------------------------------- *)

Method_Get == <<"Get">>
Method_Head == <<"Head">>
Method_Post == <<"Post">>
Method_Put == <<"Put">>
Method_Delete == <<"Delete">>
Method_Options == <<"Options">>
Method_Extension(a) == <<"Extension", a>>

normalized_method_to_typed_method(m) ==
    CASE m = s_DELETE -> Method_Delete
      [] m = s_GET -> Method_Get
      [] m = s_HEAD -> Method_Head
      [] m = s_OPTIONS -> Method_Options
      [] m = s_POST -> Method_Post
      [] m = s_PUT -> Method_Put
      [] OTHER -> Method_Extension(m)

normalize_method(m) ==
    CASE m = s_delete -> s_DELETE
      [] m = s_get -> s_GET
      [] m = s_head -> s_HEAD
      [] m = s_options -> s_OPTIONS
      [] m = s_post -> s_POST
      [] m = s_put -> s_PUT
      [] OTHER -> m

is_method_any(m) == TRUE

is_method(m) ==
    as_str(to_lower(m)) \in
        {Some(s_get), Some(s_head), Some(s_post), Some(s_put),
         Some(s_delete), Some(s_connect), Some(s_options), Some(s_trace)}

is_forbidden_method_trace_only(m) ==
    as_str(to_lower(m)) \in {Some(s_trace), Some(s_track)}

is_forbidden_method(m) ==
    as_str(to_lower(m)) \in {Some(s_connect), Some(s_trace), Some(s_track)}

is_cors_safelisted_method_put(m) ==
    m = Method_Get \/ m = Method_Head \/ m = Method_Post \/ m = Method_Put

is_cors_safelisted_method(m) == m = Method_Get \/ m = Method_Head \/ m = Method_Post

(* -------------------------------- URLs -------------------------------- *)

\* global.get_url(): the base URL of the constructing context.
base_url ==
    [scheme |-> "http", username |-> "", password |-> None,
     host |-> "example.com", path |-> "/", cannot_be_a_base |-> FALSE]

\* base_url.join(s) on the strings the model supplies: Some(url), or None for
\* a string the parser rejects.
Url_join(s) ==
    CASE s = "http://example.com/a" ->
            Some([base_url EXCEPT !.path = "/a"])
      [] s = "http://user:pw@example.com/a" ->
            Some([base_url EXCEPT !.path = "/a", !.username = "user",
                                  !.password = Some("pw")])
      [] s = "http://example.com/ref" ->
            Some([base_url EXCEPT !.path = "/ref"])
      [] s = "http://other.org/ref" ->
            Some([base_url EXCEPT !.path = "/ref", !.host = "other.org"])
      [] s = "about:client" ->
            Some([scheme |-> "about", username |-> "", password |-> None,
                  host |-> "", path |-> "client", cannot_be_a_base |-> TRUE])
      [] OTHER -> None

\* Url::origin: a tuple origin for http, an opaque origin otherwise.
Url_origin(u) ==
    IF u.scheme = "http" THEN <<"Tuple", u.scheme, u.host>> ELSE <<"Opaque">>

\* Origin's != : an opaque origin differs from every origin.
origin_ne(a, b) == a[1] = "Opaque" \/ b[1] = "Opaque" \/ a # b

includes_credentials(input) == input.username # "" \/ is_some(input.password)

(* ------------------------- net_traits::Request ------------------------ *)

\* net_traits::request::Request::new(url, origin, ..): the defaults of a
\* network-layer request.
NetTraitsRequest_new(url, origin) ==
    [method |-> Method_Get,
     headers |-> <<>>,
     unsafe_request |-> FALSE,
     body |-> None,
     window |-> "Client",
     origin |-> origin,
     omit_origin_header |-> FALSE,
     same_origin_data |-> FALSE,
     referrer |-> <<"Client">>,
     referrer_policy |-> None,
     mode |-> "NoCORS",
     credentials_mode |-> "Omit",
     cache_mode |-> "Default",
     redirect_mode |-> "Follow",
     integrity_metadata |-> "",
     url_list |-> <<url>>]

net_request_from_global(url) ==
    NetTraitsRequest_new(url, <<"Origin", Url_origin(base_url)>>)

current_url(r) == r.url_list[Len(r.url_list)]

(* ----------------------------- dom::Headers --------------------------- *)

\* A Headers object: an ordered list of <<name, value>> entries and a guard.
Headers_new == [header_list |-> <<>>, guard |-> "None"]

Headers_for_request == [header_list |-> <<>>, guard |-> "Request"]

ContentType == "content-type"

ForbiddenHeaderNames == {"cookie"}

CorsSafelistedNames == {"accept", ContentType}

\* Whether the guard forbids a header of this name.
guard_forbids(guard, name) ==
    \/ guard = "Immutable"
    \/ guard = "Request" /\ name \in ForbiddenHeaderNames
    \/ guard = "RequestNoCors" /\ name \notin CorsSafelistedNames

\* Headers::Append: Err (ok = FALSE) for a header the guard forbids.
Headers_Append(h, name, value) ==
    IF guard_forbids(h.guard, name)
    THEN [ok |-> FALSE, headers |-> h]
    ELSE [ok |-> TRUE,
          headers |-> [h EXCEPT !.header_list = Append(@, <<name, value>>)]]

RECURSIVE Headers_fill(_, _)
\* Headers::fill(Some(HeadersInit::Headers(src))): appends src's entries in
\* order, stopping at the first failure.
Headers_fill(h, list) ==
    IF list = <<>> THEN [ok |-> TRUE, headers |-> h]
    ELSE LET a == Headers_Append(h, list[1][1], list[1][2])
         IN  IF a.ok THEN Headers_fill(a.headers, Tail(list)) ELSE a

Headers_Has(h, name) == \E i \in 1..Len(h.header_list) : h.header_list[i][1] = name

empty_header_list(h) == [h EXCEPT !.header_list = <<>>]

set_guard(h, g) == [h EXCEPT !.guard = g]

\* Headers::extract_mime_type: the Content-Type value, empty when there is none.
extract_mime_type(h) ==
    IF Headers_Has(h, ContentType)
    THEN h.header_list[CHOOSE i \in 1..Len(h.header_list) :
                          /\ h.header_list[i][1] = ContentType
                          /\ \A j \in 1..(i-1) : h.header_list[j][1] # ContentType][2]
    ELSE ""

(* ------------------------------ BodyInit ------------------------------ *)

\* Extractable::extract: (bytes, Option<content type>).
extract(b) ==
    CASE b = "text" -> <<"text-bytes", Some("text/plain;charset=UTF-8")>>
      [] b = "blob" -> <<"blob-bytes", None>>

(* ----------------------- binding enum conversions ---------------------- *)

\* impl Into<NetTraitsRequestMode> for RequestMode
Mode_into(m) ==
    CASE m = "navigate" -> "Navigate"
      [] m = "same-origin" -> "SameOrigin"
      [] m = "no-cors" -> "NoCORS"
      [] m = "cors" -> "CORSMode"

\* impl Into<NetTraitsRequestCredentials> for RequestCredentials
Credentials_into(c) ==
    CASE c = "omit" -> "Omit"
      [] c = "same-origin" -> "CredentialsSameOrigin"
      [] c = "include" -> "Include"

\* impl Into<NetTraitsRequestCache> for RequestCache
Cache_into(c) ==
    CASE c = "default" -> "Default"
      [] c = "no-store" -> "NoStore"
      [] c = "reload" -> "Reload"
      [] c = "no-cache" -> "NoCache"
      [] c = "force-cache" -> "ForceCache"
      [] c = "only-if-cached" -> "OnlyIfCached"

\* impl Into<NetTraitsRequestRedirect> for RequestRedirect
Redirect_into(r) ==
    CASE r = "follow" -> "Follow"
      [] r = "error" -> "Error"
      [] r = "manual" -> "Manual"

\* impl Into<MsgReferrerPolicy> for ReferrerPolicy
ReferrerPolicy_into(p) ==
    CASE p = "" -> "NoReferrer"
      [] p = "no-referrer" -> "NoReferrer"
      [] p = "no-referrer-when-downgrade" -> "NoReferrerWhenDowngrade"
      [] p = "origin" -> "Origin"
      [] p = "origin-when-cross-origin" -> "OriginWhenCrossOrigin"
      [] p = "unsafe-url" -> "UnsafeUrl"

\* Option::map
map_mode_into(o) == IF is_some(o) THEN Some(Mode_into(unwrap(o))) ELSE None

map_credentials_into(o) ==
    IF is_some(o) THEN Some(Credentials_into(unwrap(o))) ELSE None

(* ---------------------------- the Constructor ------------------------- *)

Err(msg) == [ok |-> FALSE, err |-> msg]

request_is_disturbed(input) == FALSE

request_is_locked(input) == FALSE

InputResolution_no_fallback(input, rs) ==
    IF input[1] = "USVString"
    THEN LET parsed_url == Url_join(input[2])
         IN  IF ~is_some(parsed_url) THEN Err("Url could not be parsed")
             ELSE IF includes_credentials(unwrap(parsed_url))
             THEN Err("Url includes credentials")
             ELSE [ok |-> TRUE, err |-> "",
                   temporary_request |-> net_request_from_global(unwrap(parsed_url)),
                   fallback_mode |-> None,
                   fallback_credentials |-> None]
    ELSE LET input_request == rs[input[2]]
         IN  [ok |-> TRUE, err |-> "",
              temporary_request |-> input_request.request,
              fallback_mode |-> None,
              fallback_credentials |-> None]

\* Steps 5 and 6: the temporary request and the fallbacks.
InputResolution(input, rs) ==
    IF input[1] = "USVString"
    THEN LET parsed_url == Url_join(input[2])
         IN  IF ~is_some(parsed_url) THEN Err("Url could not be parsed")
             ELSE IF includes_credentials(unwrap(parsed_url))
             THEN Err("Url includes credentials")
             ELSE [ok |-> TRUE, err |-> "",
                   temporary_request |-> net_request_from_global(unwrap(parsed_url)),
                   fallback_mode |-> Some("CORSMode"),
                   fallback_credentials |-> Some("Omit")]
    ELSE LET input_request == rs[input[2]]
         IN  IF request_is_disturbed(input_request) \/ request_is_locked(input_request)
             THEN Err("Input is disturbed or locked")
             ELSE [ok |-> TRUE, err |-> "",
                   temporary_request |-> input_request.request,
                   fallback_mode |-> None,
                   fallback_credentials |-> None]

\* Step 10
Step10Fails(init) == init.window # "undefined" /\ init.window # "null"

\* Steps 8 and 11
Step11(init) == IF init.window # "undefined" THEN "NoWindow" ELSE "Client"

\* Step 12
Step12(temporary_request, window) ==
    [net_request_from_global(current_url(temporary_request)) EXCEPT
        !.method = temporary_request.method,
        !.headers = temporary_request.headers,
        !.unsafe_request = TRUE,
        !.window = window,
        !.origin = <<"Client">>,
        !.omit_origin_header = temporary_request.omit_origin_header,
        !.same_origin_data = TRUE,
        !.referrer = temporary_request.referrer,
        !.referrer_policy = temporary_request.referrer_policy,
        !.mode = temporary_request.mode,
        !.credentials_mode = temporary_request.credentials_mode,
        !.cache_mode = temporary_request.cache_mode,
        !.redirect_mode = temporary_request.redirect_mode,
        !.integrity_metadata = temporary_request.integrity_metadata]

\* The condition of step 13: some member of init is present.
init_is_present(init) ==
    \/ is_some(init.body)
    \/ is_some(init.cache)
    \/ is_some(init.credentials)
    \/ is_some(init.integrity)
    \/ is_some(init.headers)
    \/ is_some(init.method)
    \/ is_some(init.mode)
    \/ is_some(init.redirect)
    \/ is_some(init.referrer)
    \/ is_some(init.referrerPolicy)
    \/ init.window # "undefined"

Step13Fails_never(request, init) == FALSE

\* Step 13.1
Step13Fails(request, init) == init_is_present(init) /\ request.mode = "Navigate"

Step13_keeps(request, init) == request

\* Steps 13.2 to 13.4
Step13(request, init) ==
    IF init_is_present(init)
    THEN [request EXCEPT !.omit_origin_header = FALSE,
                         !.referrer = <<"Client">>,
                         !.referrer_policy = None]
    ELSE request

Step14_any_origin(request, init) ==
    IF ~is_some(init.referrer) THEN [ok |-> TRUE, err |-> "", request |-> request]
    ELSE LET referrer == unwrap(init.referrer)
             parsed_referrer == Url_join(referrer)
             u == unwrap(parsed_referrer)
         IN  IF referrer = ""
             THEN [ok |-> TRUE, err |-> "",
                   request |-> [request EXCEPT !.referrer = <<"NoReferrer">>]]
             ELSE IF ~is_some(parsed_referrer)
             THEN Err("Failed to parse referrer url")
             ELSE IF u.cannot_be_a_base /\ u.scheme = "about" /\ u.path = "client"
             THEN [ok |-> TRUE, err |-> "",
                   request |-> [request EXCEPT !.referrer = <<"Client">>]]
             ELSE [ok |-> TRUE, err |-> "",
                   request |-> [request EXCEPT !.referrer = <<"ReferrerUrl", u>>]]

\* Step 14
Step14(request, init) ==
    IF ~is_some(init.referrer) THEN [ok |-> TRUE, err |-> "", request |-> request]
    ELSE LET referrer == unwrap(init.referrer)
             parsed_referrer == Url_join(referrer)
             u == unwrap(parsed_referrer)
         IN  IF referrer = ""
             THEN [ok |-> TRUE, err |-> "",
                   request |-> [request EXCEPT !.referrer = <<"NoReferrer">>]]
             ELSE IF ~is_some(parsed_referrer)
             THEN Err("Failed to parse referrer url")
             ELSE IF u.cannot_be_a_base /\ u.scheme = "about" /\ u.path = "client"
             THEN [ok |-> TRUE, err |-> "",
                   request |-> [request EXCEPT !.referrer = <<"Client">>]]
             ELSE IF origin_ne(Url_origin(u), Url_origin(base_url))
             THEN Err("RequestInit's referrer has invalid origin")
             ELSE [ok |-> TRUE, err |-> "",
                   request |-> [request EXCEPT !.referrer = <<"ReferrerUrl", u>>]]

\* Step 15
Step15(request, init) ==
    IF is_some(init.referrerPolicy)
    THEN [request EXCEPT
            !.referrer_policy = Some(ReferrerPolicy_into(unwrap(init.referrerPolicy)))]
    ELSE request

\* Step 16
Step16(init, fallback_mode) == or(map_mode_into(init.mode), fallback_mode)

\* Step 17
Step17Fails(mode) == mode = Some("Navigate")

\* Step 18
Step18(request, mode) ==
    IF is_some(mode) THEN [request EXCEPT !.mode = unwrap(mode)] ELSE request

\* Steps 19 and 20
Step20(request, init, fallback_credentials) ==
    LET credentials == or(map_credentials_into(init.credentials),
                          fallback_credentials)
    IN  IF is_some(credentials)
        THEN [request EXCEPT !.credentials_mode = unwrap(credentials)]
        ELSE request

\* Step 21
Step21(request, init) ==
    IF is_some(init.cache)
    THEN [request EXCEPT !.cache_mode = Cache_into(unwrap(init.cache))]
    ELSE request

Step22Fails_inverted(request) ==
    request.cache_mode = "OnlyIfCached" /\ request.mode = "SameOrigin"

\* Step 22
Step22Fails(request) ==
    request.cache_mode = "OnlyIfCached" /\ request.mode # "SameOrigin"

\* Step 23
Step23(request, init) ==
    IF is_some(init.redirect)
    THEN [request EXCEPT !.redirect_mode = Redirect_into(unwrap(init.redirect))]
    ELSE request

\* Step 24
Step24(request, init) ==
    IF is_some(init.integrity)
    THEN [request EXCEPT !.integrity_metadata = unwrap(init.integrity)]
    ELSE request

\* Step 25
Step25(request, init) ==
    IF ~is_some(init.method) THEN [ok |-> TRUE, err |-> "", request |-> request]
    ELSE LET init_method == unwrap(init.method)
             method_lower == to_lower(init_method)
             method_string == as_str(method_lower)
         IN  IF ~is_method(init_method) THEN Err("Method is not a method")
             ELSE IF is_forbidden_method(init_method) THEN Err("Method is forbidden")
             ELSE IF ~is_some(method_string) THEN Err("Method is not a valid UTF8")
             ELSE [ok |-> TRUE, err |-> "",
                   request |-> [request EXCEPT !.method =
                       normalized_method_to_typed_method(
                           normalize_method(unwrap(method_string)))]]

\* RequestMethods::Headers as a read: the Headers object of a request, the one
\* or_init creates when the field is still null.
Headers_of(rq, hp) == IF rq.headers = 0 THEN Headers_new ELSE hp[rq.headers]

\* Steps 27 and 28: the Headers object the fill of step 31 reads.  `own` is
\* r.Headers(), which headers_copy still names when the input is a string and
\* init.headers is no Headers object.
headers_copy(input, init, rs, hp, own) ==
    IF is_some(init.headers) /\ unwrap(init.headers)[1] = "Headers"
    THEN hp[unwrap(init.headers)[2]]
    ELSE IF input[1] = "Request" THEN Headers_of(rs[input[2]], hp)
    ELSE own

\* Step 30.1
Step30_1Fails(request) ==
    request.mode = "NoCORS" /\ ~is_cors_safelisted_method(request.method)

\* Step 30.2
Step30_2Fails(request) ==
    request.mode = "NoCORS" /\ request.integrity_metadata # ""

\* Step 30.3
Step30_3(own, request) ==
    IF request.mode = "NoCORS" THEN set_guard(own, "RequestNoCors") ELSE own

\* Step 32
Step32(input, rs) ==
    IF input[1] = "Request" THEN rs[input[2]].request.body ELSE None

\* Step 33
Step33Fails(init, input_body, request) ==
    /\ is_some(init.body)
    /\ (is_some(unwrap(init.body)) \/ is_some(input_body))
    /\ request.method \in {Method_Get, Method_Head}

\* Step 34.2: the body the request ends with.
Step34_2(init, input_body) ==
    IF is_some(init.body) /\ is_some(unwrap(init.body))
    THEN Some(extract(unwrap(unwrap(init.body)))[1])
    ELSE input_body

Step34_3_always(own, init) ==
    IF is_some(init.body) /\ is_some(unwrap(init.body))
    THEN LET content_type == extract(unwrap(unwrap(init.body)))[2]
         IN  IF is_some(content_type)
             THEN Headers_Append(own, ContentType, unwrap(content_type))
             ELSE [ok |-> TRUE, headers |-> own]
    ELSE [ok |-> TRUE, headers |-> own]

\* Step 34.3
Step34_3(own, init) ==
    IF is_some(init.body) /\ is_some(unwrap(init.body))
    THEN LET content_type == extract(unwrap(unwrap(init.body)))[2]
         IN  IF is_some(content_type) /\ ~Headers_Has(own, ContentType)
             THEN Headers_Append(own, ContentType, unwrap(content_type))
             ELSE [ok |-> TRUE, headers |-> own]
    ELSE [ok |-> TRUE, headers |-> own]

\* Request::Constructor, written as a chain: each operator below checks the
\* steps named in its comment and hands the values computed so far to the
\* next.  In the result, `touched` tells whether input_request.Headers() was
\* evaluated (step 27), which initialises a null headers field of the input.
Early(msg) == [ok |-> FALSE, err |-> msg, touched |-> FALSE]

Late(input, msg) == [ok |-> FALSE, err |-> msg, touched |-> input[1] = "Request"]

\* Steps 34.3 (its result), 35, 36 and 38
Constructor_35(input, init, request, input_body, appended) ==
    IF ~appended.ok THEN Late(input, "Headers append failed")
    ELSE [ok |-> TRUE, err |-> "", touched |-> input[1] = "Request",
          request |-> [request EXCEPT !.body = Step34_2(init, input_body)],
          own |-> appended.headers,
          mime_type |-> extract_mime_type(appended.headers)]

\* Steps 31 (its result), 33 and 34
Constructor_33(input, init, request, filled, input_body) ==
    IF ~filled.ok THEN Late(input, "Headers fill failed")
    ELSE IF Step33Fails(init, input_body, request)
    THEN Late(input, "Init's body is non-null, and request method is GET or HEAD")
    ELSE Constructor_35(input, init, request, input_body,
                        Step34_3(filled.headers, init))

\* Steps 27 to 32
Constructor_30(input, init, rs, hp, request, own) ==
    IF Step30_1Fails(request)
    THEN Late(input, "The mode is 'no-cors' but the method is not a cors-safelisted method")
    ELSE IF Step30_2Fails(request)
    THEN Late(input, "Integrity metadata is not an empty string")
    ELSE Constructor_33(input, init, request,
             Headers_fill(Step30_3(own, request),
                          headers_copy(input, init, rs, hp, own).header_list),
             Step32(input, rs))

\* Steps 25 (its result), 26 and 29
Constructor_26(input, init, rs, hp, r25) ==
    IF ~r25.ok THEN Early(r25.err)
    ELSE Constructor_30(input, init, rs, hp, r25.request,
                        empty_header_list(Headers_for_request))

\* Steps 22 to 25
Constructor_22(input, init, rs, hp, r21) ==
    IF Step22Fails(r21)
    THEN Early("Cache is 'only-if-cached' and mode is not 'same-origin'")
    ELSE Constructor_26(input, init, rs, hp,
                        Step25(Step24(Step23(r21, init), init), init))

\* Steps 15 and 17 to 21
Constructor_17(input, init, rs, hp, res, request, mode) ==
    IF Step17Fails(mode) THEN Early("Request mode is Navigate")
    ELSE Constructor_22(input, init, rs, hp,
             Step21(Step20(Step18(Step15(request, init), mode),
                           init, res.fallback_credentials), init))

\* Steps 14 (its result) and 16
Constructor_16(input, init, rs, hp, res, r14) ==
    IF ~r14.ok THEN Early(r14.err)
    ELSE Constructor_17(input, init, rs, hp, res, r14.request,
                        Step16(init, res.fallback_mode))

\* Steps 13 and 14
Constructor_13(input, init, rs, hp, res, r12) ==
    IF Step13Fails(r12, init)
    THEN Early("Init is present and request mode is 'navigate'")
    ELSE Constructor_16(input, init, rs, hp, res, Step14(Step13(r12, init), init))

\* Steps 5, 6 (their result) and 7 to 12
Constructor_10(input, init, rs, hp, res) ==
    IF ~res.ok THEN Early(res.err)
    ELSE IF Step10Fails(init) THEN Early("Window is present and is not null")
    ELSE Constructor_13(input, init, rs, hp, res,
                        Step12(res.temporary_request, Step11(init)))

Constructor(input, init, rs, hp) ==
    Constructor_10(input, init, rs, hp, InputResolution(input, rs))

(* ------------------------ Request objects ----------------------------- *)

\* Request::new_inherited: body_used false, headers null, mime_type empty.
new_inherited(url) ==
    [request |-> net_request_from_global(url),
     body_used |-> FALSE,
     headers |-> 0,
     mime_type |-> ""]

\* Request::from_net_request
from_net_request(net_request) ==
    [new_inherited(current_url(net_request)) EXCEPT !.request = net_request]

\* Request::clone_from, given the Headers object r_clone.Headers() creates.
clone_from_shared(r, fresh) ==
    [request |-> r.request,
     body_used |-> r.body_used,
     headers |-> r.headers,
     mime_type |-> r.mime_type]

clone_from(r, fresh) ==
    [request |-> r.request,
     body_used |-> r.body_used,
     headers |-> fresh,
     mime_type |-> r.mime_type]

\* Request::locked: no ReadableStream yet, never locked.
locked(rq) == FALSE

\* BodyOperations::take_body: the bytes returned and the request afterwards.
take_body_no_clear(rq) ==
    [result |-> rq.request.body,
     request |-> [rq EXCEPT !.body_used = IF is_some(rq.request.body) THEN TRUE ELSE @]]

take_body_resets(rq) ==
    [result |-> rq.request.body,
     request |-> [rq EXCEPT !.request.body = None,
                            !.body_used = is_some(rq.request.body)]]

take_body_no_flag(rq) ==
    [result |-> rq.request.body,
     request |-> [rq EXCEPT !.request.body = None]]

take_body(rq) ==
    LET body == rq.request.body
    IN  [result |-> body,
         request |-> [rq EXCEPT !.request.body = None,
                                !.body_used = IF is_some(body) THEN TRUE ELSE @]]

(* ------------------------- inputs of the model ------------------------ *)

\* Each behaviour varies one group of RequestInit members; the others stay
\* absent.  `focus` names the group.
Focuses == {"mode", "nocors", "method", "body", "headers", "referrer"}

EmptyInit ==
    [body |-> None, cache |-> None, credentials |-> None, integrity |-> None,
     headers |-> None, method |-> None, mode |-> None, redirect |-> None,
     referrer |-> None, referrerPolicy |-> None, window |-> "undefined"]

Opt(S) == {None} \cup {Some(x) : x \in S}

MethodTokens ==
    {s_get, s_GET, <<"H","e","a","d">>, s_post, s_PUT, s_delete, s_OPTIONS,
     s_connect, <<"C","O","N","N","E","C","T">>, <<"T","r","a","c","e">>,
     s_track, <<"T","R","A","C","K">>, <<"p","a","t","c","h">>,
     <<"P","A","T","C","H">>, <<"G","E","T",InvalidByte>>}

\* The entries script code appends to Headers objects.
HeaderPairs(f) == IF f = "headers" THEN {<<"x-custom", "1">>} ELSE {}

\* The header lists of the Headers object script code holds from the start.
ScriptHeaderLists(f) ==
    IF f = "headers" THEN {<<>>, <<<<ContentType, "text/plain">>>>} ELSE {<<>>}

HeadersInits(hp) ==
    {<<"Headers", h>> : h \in 1..Len(hp)}
    \cup {<<"ByteStringSequenceSequence", <<<<"x-seq", "1">>>>>>,
          <<"ByteStringMozMap", <<<<"x-map", "1">>>>>>}

Inits(f, hp) ==
    CASE f = "mode" ->
            {[EmptyInit EXCEPT !.mode = m, !.cache = c, !.credentials = cr] :
                m \in Opt({"navigate", "same-origin", "no-cors", "cors"}),
                c \in Opt({"default", "only-if-cached"}),
                cr \in Opt({"include"})}
      [] f = "nocors" ->
            {[EmptyInit EXCEPT !.mode = m, !.method = me, !.integrity = g] :
                m \in Opt({"no-cors", "cors"}),
                me \in Opt({s_GET, s_put, <<"P","o","s","t">>}),
                g \in Opt({"", "sha256-abc"})}
      [] f = "method" ->
            {[EmptyInit EXCEPT !.method = me, !.redirect = rd] :
                me \in Opt(MethodTokens), rd \in Opt({"error"})}
      [] f = "body" ->
            {[EmptyInit EXCEPT !.body = b, !.method = me] :
                b \in {None, Some(None), Some(Some("text")), Some(Some("blob"))},
                me \in Opt({s_GET, s_HEAD, s_POST})}
      [] f = "headers" ->
            {[EmptyInit EXCEPT !.headers = h, !.body = bm[1], !.method = bm[2]] :
                h \in Opt(HeadersInits(hp)),
                bm \in {<<None, None>>, <<Some(Some("text")), Some(s_POST)>>}}
      [] f = "referrer" ->
            {[EmptyInit EXCEPT !.referrer = r, !.referrerPolicy = p, !.window = w] :
                r \in Opt({"", "about:client", "http://example.com/ref",
                           "http://other.org/ref", "http://["}),
                p \in Opt({"origin"}),
                w \in {"undefined", "null", "object"}}

UrlInputs ==
    {<<"USVString", s>> :
        s \in {"http://example.com/a", "http://user:pw@example.com/a", "http://["}}

Inputs(rs) == UrlInputs \cup {<<"Request", i>> : i \in 1..Len(rs)}

BaseNetRequest == net_request_from_global(unwrap(Url_join("http://example.com/a")))

\* The network-layer requests existing request objects embed.
NetRequests(f) ==
    CASE f = "mode" ->
            {[BaseNetRequest EXCEPT !.mode = m] :
                m \in {"Navigate", "SameOrigin", "NoCORS", "CORSMode"}}
            \cup {[BaseNetRequest EXCEPT !.mode = "SameOrigin",
                                         !.cache_mode = "OnlyIfCached"]}
      [] f = "method" ->
            {BaseNetRequest,
             [BaseNetRequest EXCEPT !.mode = "CORSMode",
                  !.method = Method_Extension(<<"P","A","T","C","H">>)]}
      [] f = "referrer" ->
            {BaseNetRequest,
             [BaseNetRequest EXCEPT !.omit_origin_header = TRUE,
                                    !.referrer = <<"NoReferrer">>,
                                    !.referrer_policy = Some("UnsafeUrl")]}
      [] OTHER -> {BaseNetRequest}

(* --------------------------- the state machine ------------------------ *)

NoOp ==
    [op |-> "none", ok |-> TRUE, err |-> "", input |-> <<>>,
     init |-> EmptyInit, res |-> 0, taken |-> None]

\* No request exists; script code holds one Headers object.
Init ==
    /\ focus \in Focuses
    /\ reqs = <<>>
    /\ made = <<>>
    /\ \E list \in ScriptHeaderLists(focus) :
          heap = <<[Headers_new EXCEPT !.header_list = list]>>
    /\ last = NoOp
    /\ promises = <<>>

\* One call at a time: the script makes its next call after the last returned.
Idle == last = NoOp

\* The caller has looked at the outcome of its call and goes on.
Return ==
    /\ last # NoOp
    /\ last' = NoOp
    /\ UNCHANGED <<reqs, heap, made, focus, promises>>

\* A request object that wraps a network-layer request.
FromNetRequest(net_request) ==
    /\ Idle
    /\ Len(reqs) < MaxReqs
    /\ reqs' = Append(reqs, from_net_request(net_request))
    /\ made' = Append(made, [how |-> "from_net_request", src |-> 0])
    /\ last' = [NoOp EXCEPT !.op = "from_net_request", !.res = Len(reqs) + 1]
    /\ UNCHANGED <<heap, focus, promises>>

ConstructorEffect_empties_input(input, init, c, alloc) ==
    LET i == input[2]
        heap0 == IF input[1] = "Request" /\ reqs[i].headers # 0
                 THEN [heap EXCEPT ![reqs[i].headers] = empty_header_list(@)]
                 ELSE heap
        heap1 == IF alloc THEN Append(heap0, Headers_new) ELSE heap0
        n == Len(heap1)
    IN  /\ heap' = IF c.ok THEN Append(heap1, c.own) ELSE heap1
        /\ reqs' = LET reqs1 == IF alloc THEN [reqs EXCEPT ![i].headers = n] ELSE reqs
                   IN  IF c.ok
                       THEN Append(reqs1, [request |-> c.request, body_used |-> FALSE,
                                           headers |-> n + 1, mime_type |-> c.mime_type])
                       ELSE reqs1
        /\ made' = IF c.ok
                   THEN Append(made, [how |-> "Constructor",
                                      src |-> IF input[1] = "Request" THEN i ELSE 0])
                   ELSE made
        /\ last' = [NoOp EXCEPT !.op = "Constructor", !.ok = c.ok, !.err = c.err,
                                !.input = input, !.init = init,
                                !.res = IF c.ok THEN Len(reqs) + 1 ELSE 0]

\* The effect of a Constructor call that ended as c.
ConstructorEffect(input, init, c, alloc) ==
    LET i == input[2]
        heap1 == IF alloc THEN Append(heap, Headers_new) ELSE heap
        n == Len(heap1)
    IN  /\ heap' = IF c.ok THEN Append(heap1, c.own) ELSE heap1
        /\ reqs' = LET reqs1 == IF alloc THEN [reqs EXCEPT ![i].headers = n] ELSE reqs
                   IN  IF c.ok
                       THEN Append(reqs1, [request |-> c.request, body_used |-> FALSE,
                                           headers |-> n + 1, mime_type |-> c.mime_type])
                       ELSE reqs1
        /\ made' = IF c.ok
                   THEN Append(made, [how |-> "Constructor",
                                      src |-> IF input[1] = "Request" THEN i ELSE 0])
                   ELSE made
        /\ last' = [NoOp EXCEPT !.op = "Constructor", !.ok = c.ok, !.err = c.err,
                                !.input = input, !.init = init,
                                !.res = IF c.ok THEN Len(reqs) + 1 ELSE 0]

ConstructorDone(input, init, c) ==
    ConstructorEffect(input, init, c, c.touched /\ reqs[input[2]].headers = 0)

\* new Request(input, init)
ConstructorCall(input, init) ==
    /\ Idle
    /\ Len(reqs) < MaxReqs
    /\ ConstructorDone(input, init, Constructor(input, init, reqs, heap))
    /\ UNCHANGED <<focus, promises>>

\* RequestMethods::Headers: script code reads request.headers.
HeadersGetter(i) ==
    /\ Idle
    /\ reqs[i].headers = 0
    /\ heap' = Append(heap, Headers_new)
    /\ reqs' = [reqs EXCEPT ![i].headers = Len(heap) + 1]
    /\ last' = [NoOp EXCEPT !.op = "Headers", !.input = <<"Request", i>>]
    /\ UNCHANGED <<made, focus, promises>>

\* RequestMethods::Clone
CloneCall(i) ==
    /\ Idle
    /\ Len(reqs) < MaxReqs
    /\ IF request_is_locked(reqs[i]) \/ request_is_disturbed(reqs[i])
       THEN /\ last' = [NoOp EXCEPT !.op = "Clone", !.ok = FALSE,
                                    !.err = "Request is locked or disturbed",
                                    !.input = <<"Request", i>>]
            /\ UNCHANGED <<reqs, heap, made>>
       ELSE LET alloc == reqs[i].headers = 0
                heap1 == IF alloc THEN Append(heap, Headers_new) ELSE heap
                reqs1 == IF alloc THEN [reqs EXCEPT ![i].headers = Len(heap1)]
                         ELSE reqs
                headers_guard == heap1[reqs1[i].headers].guard
            IN  /\ heap' = Append(heap1, set_guard(Headers_new, headers_guard))
                /\ reqs' = Append(reqs1, clone_from(reqs1[i], Len(heap1) + 1))
                /\ made' = Append(made, [how |-> "Clone", src |-> i])
                /\ last' = [NoOp EXCEPT !.op = "Clone", !.input = <<"Request", i>>,
                                        !.res = Len(reqs) + 1]
    /\ UNCHANGED <<focus, promises>>

\* A body-consuming call reaches take_body.
TakeBody(i) ==
    /\ Idle
    /\ LET t == take_body(reqs[i])
       IN  /\ reqs' = [reqs EXCEPT ![i] = t.request]
           /\ last' = [NoOp EXCEPT !.op = "take_body", !.input = <<"Request", i>>,
                                   !.taken = t.result]
    /\ UNCHANGED <<heap, made, focus, promises>>

\* Script code appends an entry to a Headers object it holds.
HeadersAppend(h, name, value) ==
    /\ Idle
    /\ Len(heap[h].header_list) < MaxHeaders
    /\ LET a == Headers_Append(heap[h], name, value)
       IN  /\ heap' = [heap EXCEPT ![h] = a.headers]
           /\ last' = [NoOp EXCEPT !.op = "Append", !.ok = a.ok, !.res = h]
    /\ UNCHANGED <<reqs, made, focus, promises>>

Next ==
    \/ \E net_request \in NetRequests(focus) : FromNetRequest(net_request)
    \/ \E input \in Inputs(reqs), init \in Inits(focus, heap) :
          ConstructorCall(input, init)
    \/ \E i \in 1..Len(reqs) : HeadersGetter(i)
    \/ \E i \in 1..Len(reqs) : CloneCall(i)
    \/ \E i \in 1..Len(reqs) : TakeBody(i)
    \/ \E h \in 1..Len(heap), p \in HeaderPairs(focus) : HeadersAppend(h, p[1], p[2])
    \/ Return

Spec == Init /\ [][Next]_vars

(* ------------- body-consuming calls, followed step by step ------------- *)

\* Text, Blob, FormData and Json return a promise: the call and the moment its
\* take_body runs are separate steps here, so that the calls made on one
\* request interleave in every order.  take_body itself is one step: it runs
\* on the script thread under self.request.borrow_mut() and calls nothing.

BodyTypes == {"Text", "Blob", "FormData", "Json"}

\* One request, as the Constructor returns it for http://example.com/a and an
\* init of the body group; script code holds one Headers object.
InitBody ==
    /\ focus = "body"
    /\ \E init \in Inits("body", <<Headers_new>>) :
          LET c == Constructor(<<"USVString", "http://example.com/a">>, init,
                               <<>>, <<Headers_new>>)
          IN  /\ c.ok
              /\ reqs = <<[request |-> c.request, body_used |-> FALSE,
                           headers |-> 2, mime_type |-> c.mime_type]>>
              /\ heap = <<Headers_new, c.own>>
    /\ made = <<[how |-> "Constructor", src |-> 0]>>
    /\ last = NoOp
    /\ promises = <<>>

\* Text, Blob, FormData or Json is called on request i and returns a promise.
\* The four differ in how the bytes are packaged, not in how they are taken:
\* a promise records the request and the bytes, not the type.
ConsumeCall(i, body_type) ==
    /\ Len(promises) < MaxCalls
    /\ ~locked(reqs[i])
    /\ body_type \in BodyTypes
    /\ promises' = Append(promises, [req |-> i, state |-> "pending",
                                     bytes |-> None])
    /\ UNCHANGED <<reqs, heap, last, made, focus>>

\* The call behind promise k reaches take_body; the promise is resolved with
\* what it returned.
ConsumeTake(k) ==
    /\ promises[k].state = "pending"
    /\ LET i == promises[k].req
           t == take_body(reqs[i])
       IN  /\ reqs' = [reqs EXCEPT ![i] = t.request]
           /\ promises' = [promises EXCEPT ![k].state = "resolved",
                                           ![k].bytes = t.result]
    /\ UNCHANGED <<heap, last, made, focus>>

NextBody ==
    \/ \E i \in 1..Len(reqs), body_type \in BodyTypes : ConsumeCall(i, body_type)
    \/ \E k \in 1..Len(promises) : ConsumeTake(k)
    \/ \E i \in 1..Len(reqs) : CloneCall(i)
    \/ Return

SpecBody == InitBody /\ [][NextBody]_vars

(* ------------------------------ properties ---------------------------- *)

\* The Constructor call that just returned, and what it returned.
Constructed == last.op = "Constructor" /\ last.ok

Rejected == last.op = "Constructor" /\ ~last.ok

FromRequest == last.input # <<>> /\ last.input[1] = "Request"

InputRequest == reqs[last.input[2]]

Result == reqs[last.res]

ResultHeaders == heap[reqs[last.res].headers]

\* The mode and cache the claims call "resulting": the override if init has
\* one, else the fallback of a string input, else the input request's value.
ResultingMode ==
    IF is_some(last.init.mode)
    THEN CASE unwrap(last.init.mode) = "navigate" -> "Navigate"
           [] unwrap(last.init.mode) = "same-origin" -> "SameOrigin"
           [] unwrap(last.init.mode) = "no-cors" -> "NoCORS"
           [] unwrap(last.init.mode) = "cors" -> "CORSMode"
    ELSE IF FromRequest THEN InputRequest.request.mode ELSE "CORSMode"

ResultingCache ==
    IF is_some(last.init.cache)
    THEN (IF unwrap(last.init.cache) = "only-if-cached" THEN "OnlyIfCached"
          ELSE "Default")
    ELSE IF FromRequest THEN InputRequest.request.cache_mode ELSE "Default"

CacheError == "Cache is 'only-if-cached' and mode is not 'same-origin'"

\* C1: a request the Constructor returns has cache mode only-if-cached only
\* with mode same-origin; the Constructor fails with the cache error exactly
\* when the resulting cache mode is only-if-cached and the resulting mode is
\* not same-origin, among the calls that get as far as that check.
C1_OnlyIfCachedImpliesSameOrigin ==
    /\ Constructed =>
          /\ Result.request.cache_mode = "OnlyIfCached"
                => Result.request.mode = "SameOrigin"
          /\ Result.request.cache_mode = ResultingCache
          /\ Result.request.mode = ResultingMode
    /\ (Rejected /\ last.err = CacheError) =>
          ResultingCache = "OnlyIfCached" /\ ResultingMode # "SameOrigin"
    /\ (last.op = "Constructor" /\ ResultingCache = "OnlyIfCached"
           /\ ResultingMode # "SameOrigin") => ~last.ok

C1_Witness ==
    /\ Constructed
    /\ last.init.cache = Some("only-if-cached")
    /\ Result.request.cache_mode = "OnlyIfCached"
    /\ Result.request.mode = "SameOrigin"

C1_WitnessRejected ==
    /\ Rejected
    /\ last.err = CacheError
    /\ last.init.cache = Some("only-if-cached")
    /\ last.init.mode = Some("cors")

\* C2: a request the Constructor returns with mode no-cors has method GET,
\* HEAD or POST, empty integrity metadata and a header list whose guard is
\* request-no-cors.
C2_NoCorsSafelisted ==
    (Constructed /\ Result.request.mode = "NoCORS") =>
        /\ Result.request.method \in {Method_Get, Method_Head, Method_Post}
        /\ Result.request.integrity_metadata = ""
        /\ ResultHeaders.guard = "RequestNoCors"

C2_Witness ==
    /\ Constructed
    /\ Result.request.mode = "NoCORS"
    /\ last.init.method = Some(<<"P","o","s","t">>)
    /\ Result.request.method = Method_Post
    /\ last.init.integrity = Some("")

C2_WitnessRejected ==
    /\ Rejected
    /\ last.init.mode = Some("no-cors")
    /\ last.init.method = Some(s_put)
    /\ last.init.integrity = None

\* C3 as claimed: no request the Constructor returns has mode navigate.
C3_NeverNavigate == Constructed => Result.request.mode # "Navigate"

\* C3, amended: a request the Constructor returns has mode navigate only when
\* the input is a request whose mode is navigate and init has no member; a
\* mode override of navigate is rejected, and an input request whose mode is
\* navigate is rejected whenever init has a member.
C3_NavigateOnlyFromBareInput ==
    /\ (Constructed /\ Result.request.mode = "Navigate") =>
          /\ FromRequest
          /\ InputRequest.request.mode = "Navigate"
          /\ last.init = EmptyInit
    /\ (last.op = "Constructor" /\ last.init.mode = Some("navigate")) => ~last.ok
    /\ (last.op = "Constructor" /\ FromRequest /\ last.init # EmptyInit
           /\ InputRequest.request.mode = "Navigate") => ~last.ok

C3_Witness ==
    /\ Rejected
    /\ FromRequest
    /\ InputRequest.request.mode = "Navigate"
    /\ last.init.mode = None
    /\ last.init.cache = Some("default")

C3_WitnessKept ==
    /\ Constructed
    /\ last.init = EmptyInit
    /\ Result.request.mode = "Navigate"

\* C4: no request the Constructor returns has method GET or HEAD together
\* with a body.
C4_NoBodyOnGetOrHead ==
    Constructed =>
        ~(/\ Result.request.method \in {Method_Get, Method_Head}
          /\ is_some(Result.request.body))

\* C5: a Constructor or Clone call on a request whose body has been used
\* fails.
C5_DisturbedInputFails ==
    (/\ last.op \in {"Constructor", "Clone"}
     /\ FromRequest
     /\ InputRequest.body_used) => ~last.ok

\* C6: body_used is false on the request a Constructor call returns, and no
\* step turns the body_used of a request from true to false.
C6_BodyUsedMonotonic ==
    [][/\ \A i \in 1..Len(reqs) : reqs[i].body_used => reqs'[i].body_used
       /\ (last'.op = "Constructor" /\ last'.ok) => ~reqs'[last'.res].body_used]_vars

C6_Witness ==
    /\ last.op = "take_body"
    /\ last.taken = None
    /\ InputRequest.body_used

\* C7 as claimed: after a take_body call on a request, its body_used is true.
C7_UsedAfterAnyTake == last.op = "take_body" => InputRequest.body_used

\* C7, amended: a take_body call on a request with a body returns the body,
\* leaves the stored body none and body_used true; on a request with no body
\* it returns none and leaves the stored body none and body_used as it was.
\* No step turns body_used from true to false.
C7_UsedAfterTakeOfBody ==
    [][/\ \A i \in 1..Len(reqs) : reqs[i].body_used => reqs'[i].body_used
       /\ last'.op = "take_body" =>
             LET i == last'.input[2]
             IN  /\ last'.taken = reqs[i].request.body
                 /\ reqs'[i].request.body = None
                 /\ reqs'[i].body_used =
                       (reqs[i].body_used \/ is_some(reqs[i].request.body))]_vars

C7_Witness ==
    /\ last.op = "take_body"
    /\ last.taken = Some("text-bytes")
    /\ InputRequest.body_used
    /\ InputRequest.request.body = None

C7_WitnessNoBody ==
    /\ last.op = "take_body"
    /\ last.taken = None
    /\ ~InputRequest.body_used

\* C8: after a Clone call, the clone's header list has the entries and the
\* guard of the original's, and its body_used and mime_type are the original's.
C8_CloneCopiesHeaders ==
    (last.op = "Clone" /\ last.ok) =>
        /\ ResultHeaders.header_list = Headers_of(InputRequest, heap).header_list
        /\ ResultHeaders.guard = Headers_of(InputRequest, heap).guard
        /\ Result.body_used = InputRequest.body_used
        /\ Result.mime_type = InputRequest.mime_type

\* A take_body call on request i, or an Append to its Headers object.
MutationOf(i) ==
    \/ last'.op = "take_body" /\ last'.input = <<"Request", i>>
    \/ last'.op = "Append" /\ last'.ok /\ last'.res = reqs[i].headers

\* C9: a take_body call or a header append on a clone leaves the request it
\* was cloned from as it was (its network-layer request with the body, its
\* body_used, mime_type and Headers object), and one on the original leaves
\* the clone as it was.
C9_CloneIndependent ==
    [][\A i, j \in 1..Len(reqs) :
          (/\ i # j
           /\ \/ made[i] = [how |-> "Clone", src |-> j]
              \/ made[j] = [how |-> "Clone", src |-> i]
           /\ MutationOf(i))
          => /\ reqs'[j] = reqs[j]
             /\ Headers_of(reqs'[j], heap') = Headers_of(reqs[j], heap)]_vars

\* An append on a clone has gone through and the original's list lacks the entry.
C9_Witness ==
    \E i, j \in 1..Len(reqs) :
        /\ made[i] = [how |-> "Clone", src |-> j]
        /\ last.op = "Append" /\ last.ok /\ last.res = reqs[i].headers
        /\ heap[reqs[i].headers].header_list = <<<<"x-custom", "1">>>>
        /\ heap[reqs[j].headers].header_list # heap[reqs[i].headers].header_list

C9_WitnessTake ==
    \E i, j \in 1..Len(reqs) :
        /\ made[i] = [how |-> "Clone", src |-> j]
        /\ last.op = "take_body" /\ last.input = <<"Request", j>>
        /\ is_some(last.taken)
        /\ is_some(reqs[i].request.body)
        /\ ~reqs[i].body_used

\* The entries a headers member of init supplies.
SuppliedEntries == 
    IF unwrap(last.init.headers)[1] = "Headers"
    THEN heap[unwrap(last.init.headers)[2]].header_list
    ELSE unwrap(last.init.headers)[2]

\* C10: without a body member, the header list of the request the Constructor
\* returns holds the entries of init's headers member when init has one, in
\* any of its three forms; else those of the input request's header list;
\* else, for a string input, none.
C10_HeadersFromInit ==
    (Constructed /\ last.init.body = None) =>
        ResultHeaders.header_list =
            IF is_some(last.init.headers) THEN SuppliedEntries
            ELSE IF FromRequest THEN Headers_of(InputRequest, heap).header_list
            ELSE <<>>

\* The URL http://example.com/ref, which has the origin of the constructing
\* context.
SameOriginRef ==
    [scheme |-> "http", username |-> "", password |-> None,
     host |-> "example.com", path |-> "/ref", cannot_be_a_base |-> FALSE]

\* C11: with a referrer member in init, a Constructor call that succeeds
\* stores NoReferrer for the empty string, Client for about:client and
\* ReferrerUrl(resolved URL) for a URL of the context's origin; the call fails
\* for a string that does not parse and for a URL of another origin.
C11_ReferrerOverride ==
    (last.op = "Constructor" /\ is_some(last.init.referrer)) =>
        LET r == unwrap(last.init.referrer)
        IN  /\ (r = "" /\ last.ok) => Result.request.referrer = <<"NoReferrer">>
            /\ (r = "about:client" /\ last.ok) => Result.request.referrer = <<"Client">>
            /\ r \in {"http://[", "http://other.org/ref"} => ~last.ok
            /\ (r = "http://example.com/ref" /\ last.ok) =>
                  Result.request.referrer = <<"ReferrerUrl", SameOriginRef>>
            /\ (~last.ok /\ last.init.window # "object"
                   /\ ~(FromRequest /\ InputRequest.request.mode = "Navigate")
                   /\ last.input # <<"USVString", "http://[">>
                   /\ last.input # <<"USVString", "http://user:pw@example.com/a">>)
                  => r \in {"http://[", "http://other.org/ref"}

C11_Witness ==
    /\ Constructed
    /\ last.init.referrer = Some("http://example.com/ref")
    /\ Result.request.referrer = <<"ReferrerUrl", SameOriginRef>>

C11_WitnessCrossOrigin ==
    /\ Rejected
    /\ last.init.referrer = Some("http://other.org/ref")
    /\ last.err = "RequestInit's referrer has invalid origin"

C11_WitnessNoReferrer ==
    /\ Constructed
    /\ FromRequest
    /\ last.init.referrer = Some("")
    /\ Result.request.referrer = <<"NoReferrer">>

\* C12: a Constructor call whose init has a method member that is CONNECT,
\* TRACE or TRACK in some letter casing fails, whatever the input and the
\* other members.
C12_ForbiddenMethodRejected ==
    (/\ last.op = "Constructor"
     /\ is_some(last.init.method)
     /\ to_lower(unwrap(last.init.method)) \in {s_connect, s_trace, s_track})
    => ~last.ok

C12_Witness ==
    /\ Rejected
    /\ FromRequest
    /\ last.init.method = Some(<<"C","O","N","N","E","C","T">>)
    /\ last.init.redirect = Some("error")
    /\ last.err = "Method is forbidden"

C12_WitnessTrack ==
    /\ Rejected
    /\ last.init.method = Some(<<"T","R","A","C","K">>)
    /\ last.err = "Method is not a method"

\* C13: a Constructor call on the string http://example.com/a with an init
\* that has no member succeeds with mode CORS, credentials mode Omit, method
\* GET, body_used false, a url_list of the one resolved URL and no body; a
\* request the Constructor returns for a string input has mode CORS when init
\* has no mode member and credentials mode Omit when it has no credentials
\* member.
C13_UrlDefaults ==
    /\ (/\ last.op = "Constructor"
        /\ last.input = <<"USVString", "http://example.com/a">>
        /\ last.init = EmptyInit)
       => /\ last.ok
          /\ Result.request.mode = "CORSMode"
          /\ Result.request.credentials_mode = "Omit"
          /\ Result.request.method = Method_Get
          /\ ~Result.body_used
          /\ Result.request.url_list = <<[base_url EXCEPT !.path = "/a"]>>
          /\ Result.request.body = None
    /\ (Constructed /\ ~FromRequest /\ last.init.mode = None)
       => Result.request.mode = "CORSMode"
    /\ (Constructed /\ ~FromRequest /\ last.init.credentials = None)
       => Result.request.credentials_mode = "Omit"

C13_Witness ==
    /\ Constructed
    /\ last.input = <<"USVString", "http://example.com/a">>
    /\ last.init = EmptyInit
    /\ Result.request.mode = "CORSMode"

C13_WitnessOneOverride ==
    /\ Constructed
    /\ ~FromRequest
    /\ last.init.mode = None
    /\ last.init.credentials = Some("include")
    /\ Result.request.credentials_mode = "Include"
    /\ Result.request.mode = "CORSMode"

\* The entries step 31 fills the header list of the new request with.
FilledEntries ==
    IF is_some(last.init.headers) /\ unwrap(last.init.headers)[1] = "Headers"
    THEN heap[unwrap(last.init.headers)[2]].header_list
    ELSE IF FromRequest THEN Headers_of(InputRequest, heap).header_list
    ELSE <<>>

\* The Content-Type entries of a header list, in order.
ContentTypes(list) == SelectSeq(list, LAMBDA e : e[1] = ContentType)

\* C14: when init has a text body, whose extraction gives the content type
\* text/plain;charset=UTF-8, the request the Constructor returns has the
\* filled entries alone when they hold a Content-Type entry (its value kept,
\* no second one added), and the filled entries followed by one Content-Type
\* entry with the extracted value when they hold none.
C14_ContentTypeOnce ==
    (Constructed /\ last.init.body = Some(Some("text"))) =>
        IF ContentTypes(FilledEntries) # <<>>
        THEN ResultHeaders.header_list = FilledEntries
        ELSE ResultHeaders.header_list =
                Append(FilledEntries, <<ContentType, "text/plain;charset=UTF-8">>)

C14_Witness ==
    /\ Constructed
    /\ last.init.body = Some(Some("text"))
    /\ is_some(last.init.headers)
    /\ unwrap(last.init.headers)[1] = "Headers"
    /\ ContentTypes(FilledEntries) = <<<<ContentType, "text/plain">>>>
    /\ ContentTypes(ResultHeaders.header_list) = <<<<ContentType, "text/plain">>>>
    /\ Result.mime_type = "text/plain"

C14_WitnessAppended ==
    /\ Constructed
    /\ last.init.body = Some(Some("text"))
    /\ FilledEntries = <<<<"x-custom", "1">>>>
    /\ ResultHeaders.header_list =
          <<<<"x-custom", "1">>, <<ContentType, "text/plain;charset=UTF-8">>>>

\* C15: a request the Constructor returns for a request input and an init
\* with some member (window included) has omit_origin_header false, referrer
\* Client unless init has a referrer member and referrer_policy None unless
\* init has a referrerPolicy member; with an init that has no member its
\* referrer, referrer_policy and omit_origin_header are the input request's.
C15_BaselineReset ==
    (Constructed /\ FromRequest) =>
        IF last.init # EmptyInit
        THEN /\ Result.request.omit_origin_header = FALSE
             /\ last.init.referrer = None => Result.request.referrer = <<"Client">>
             /\ last.init.referrerPolicy = None => Result.request.referrer_policy = None
             /\ last.init.referrerPolicy = Some("origin")
                   => Result.request.referrer_policy = Some("Origin")
        ELSE /\ Result.request.omit_origin_header = InputRequest.request.omit_origin_header
             /\ Result.request.referrer = InputRequest.request.referrer
             /\ Result.request.referrer_policy = InputRequest.request.referrer_policy

C15_Witness ==
    /\ Constructed
    /\ FromRequest
    /\ InputRequest.request.omit_origin_header
    /\ InputRequest.request.referrer = <<"NoReferrer">>
    /\ InputRequest.request.referrer_policy = Some("UnsafeUrl")
    /\ last.init = [EmptyInit EXCEPT !.window = "null"]
    /\ ~Result.request.omit_origin_header
    /\ Result.request.referrer = <<"Client">>
    /\ Result.request.referrer_policy = None

C15_WitnessKept ==
    /\ Constructed
    /\ FromRequest
    /\ last.init = EmptyInit
    /\ Result.request.omit_origin_header
    /\ Result.request.referrer = <<"NoReferrer">>
    /\ Result.request.referrer_policy = Some("UnsafeUrl")

\* The calls on request i whose promise is resolved, and those among them
\* that obtained bytes.
ResolvedCalls(i) ==
    {k \in 1..Len(promises) : promises[k].req = i /\ promises[k].state = "resolved"}

ObtainedCalls(i) == {k \in ResolvedCalls(i) : is_some(promises[k].bytes)}

\* C16: of the body-consuming calls made on one request, in whatever order
\* their take steps run, at most one obtains bytes; a take step returns the
\* body stored at that moment and leaves none stored, so the first take on a
\* request with a body obtains its bytes and every later one obtains none.
C16_BodyDeliveredOnce ==
    /\ [](\A i \in 1..Len(reqs) :
            /\ Cardinality(ObtainedCalls(i)) <= 1
            /\ ResolvedCalls(i) # {} => reqs[i].request.body = None)
    /\ [][\A k \in 1..Len(promises) :
            (promises[k].state = "pending" /\ promises'[k].state = "resolved")
            => /\ promises'[k].bytes = reqs[promises[k].req].request.body
               /\ reqs'[promises[k].req].request.body = None]_vars

\* Two calls on the request, the take of the second call first: the second
\* call obtained the bytes, the first none.
C16_Witness ==
    /\ Len(promises) >= 2
    /\ promises[1].req = 1 /\ promises[2].req = 1
    /\ promises[1].state = "resolved" /\ promises[2].state = "resolved"
    /\ promises[1].bytes = None
    /\ promises[2].bytes = Some("text-bytes")
    /\ reqs[1].body_used

\* C17: a Constructor call, whether it returns a request or an error, leaves
\* every request that existed, its input among them, with the same
\* network-layer request (body included), body_used, mime_type, header list
\* and guard, and leaves every Headers object that existed, the one passed as
\* init's headers member among them, as it was.
C17_InputUnchanged ==
    [][last'.op = "Constructor" =>
          /\ \A i \in 1..Len(reqs) :
                /\ reqs'[i].request = reqs[i].request
                /\ reqs'[i].body_used = reqs[i].body_used
                /\ reqs'[i].mime_type = reqs[i].mime_type
                /\ Headers_of(reqs'[i], heap') = Headers_of(reqs[i], heap)
          /\ \A h \in 1..Len(heap) : heap'[h] = heap[h]]_vars

\* A call on a request with a body and a Content-Type entry, with a Headers
\* object as init's headers member, has returned a request.
C17_Witness ==
    /\ Constructed
    /\ FromRequest
    /\ is_some(InputRequest.request.body)
    /\ Headers_of(InputRequest, heap).header_list # <<>>
    /\ is_some(last.init.headers)
    /\ unwrap(last.init.headers)[1] = "Headers"
    /\ is_some(last.init.body)

\* A call on a request with a body has failed after step 27.
C17_WitnessRejected ==
    /\ Rejected
    /\ FromRequest
    /\ is_some(InputRequest.request.body)
    /\ last.err = "Init's body is non-null, and request method is GET or HEAD"

\* The six tokens a method override may have in lowercase, and the method
\* each stands for.
KnownMethods ==
    {<<s_get, Method_Get>>, <<s_head, Method_Head>>, <<s_post, Method_Post>>,
     <<s_put, Method_Put>>, <<s_delete, Method_Delete>>,
     <<s_options, Method_Options>>}

\* C18: a Constructor call whose init has a method member fails unless the
\* lowercased token is get, head, post, put, delete or options (PATCH and a
\* token that is no valid UTF-8 fail); a request it returns stores the
\* canonical method of the token, never an extension token.
C18_MethodOverrideKnownOnly ==
    (last.op = "Constructor" /\ is_some(last.init.method)) =>
        LET token == to_lower(unwrap(last.init.method))
        IN  /\ (\A km \in KnownMethods : km[1] # token) => ~last.ok
            /\ last.ok =>
                  /\ \E km \in KnownMethods :
                        km[1] = token /\ Result.request.method = km[2]
                  /\ Result.request.method[1] # "Extension"

C18_Witness ==
    /\ Constructed
    /\ last.init.method = Some(s_delete)
    /\ Result.request.method = Method_Delete

C18_WitnessPatch ==
    /\ Rejected
    /\ last.init.method = Some(<<"P","A","T","C","H">>)
    /\ last.err = "Method is not a method"

C18_WitnessInvalidUtf8 ==
    /\ Rejected
    /\ last.init.method = Some(<<"G","E","T",InvalidByte>>)
    /\ last.err = "Method is not a method"

====
